---- MODULE Spec2Model ----
(***************************************************************************)
(* A model of modelfusion's runtime type validation (validateTypes,        *)
(* safeValidateTypes), of the model functions transcribe, embedTexts and   *)
(* embedText running on the call execution pipeline, and of the socket     *)
(* handlers of ElevenLabsSpeechSynthesisModel.doSynthesizeSpeechStreamDuplex.*)
(***************************************************************************)
EXTENDS Integers, Sequences, FiniteSets, TLC

VARIABLES
    value,            \* validateTypes / safeValidateTypes: the `value` argument
    schemaOutcome,    \* what schema.validate(value) does for that value
    validateResult,   \* completion of validateTypes({value, schema})
    safeResult,       \* completion of safeValidateTypes({value, schema})
    fn,               \* which model function the caller invoked
    input,            \* the caller's argument: data (transcribe), texts (embedTexts), text (embedText)
    maxTextsPerCall,  \* model.maxTextsPerCall
    pc,               \* position of executeCall
    events,           \* the lifecycle events notified so far, in order
    calls,            \* the arguments of the model calls issued so far, in order
    slots,            \* the state of the promise of each issued model call
    completionOrder,  \* the indices of the model calls in the order they settled
    result,           \* completion of the model function as seen by the caller
    socketState,      \* "open" or "closed"
    arrived,          \* the socket events delivered so far, in order
    queue             \* the AsyncQueue returned by doSynthesizeSpeechStreamDuplex

validateVars == <<value, schemaOutcome, validateResult, safeResult>>
callVars == <<fn, input, maxTextsPerCall, pc, events, calls, slots, completionOrder, result>>
duplexVars == <<socketState, arrived, queue>>
vars == <<validateVars, callVars, duplexVars>>

(***************************************************************************)
(* Bounds                                                                  *)
(***************************************************************************)
NumValues == 3
NumErrors == 2
NumTexts == 2
MaxTexts == 3
MaxPerCall == 2
MaxEvents == 2
NumCallErrors == 1

Values == 1..NumValues
ErrorIds == 1..NumErrors

Pending == [type |-> "pending"]

(***************************************************************************)
(* Idle values of the parts a specification does not exercise              *)
(***************************************************************************)
ValidateIdle ==
    /\ value = 1
    /\ schemaOutcome = [type |-> "return", result |-> [success |-> TRUE, value |-> 1]]
    /\ validateResult = Pending
    /\ safeResult = Pending

CallIdle ==
    /\ fn = "none"
    /\ input = <<>>
    /\ maxTextsPerCall = 1
    /\ pc = "idle"
    /\ events = <<>>
    /\ calls = <<>>
    /\ slots = <<>>
    /\ completionOrder = <<>>
    /\ result = Pending

DuplexIdle ==
    /\ socketState = "closed"
    /\ arrived = <<>>
    /\ queue = [items |-> <<>>, closed |-> TRUE]

(***************************************************************************)
(* Type validation                                                         *)
(***************************************************************************)
PlainError(id) == [kind |-> "Error", id |-> id]

\* new TypeValidationError({ value, cause })
TypeValidationError(v, cause) == [kind |-> "TypeValidationError", value |-> v, cause |-> cause]

\* error instanceof TypeValidationError
IsTypeValidationError(e) == e.kind = "TypeValidationError"

\* Everything schema.validate(value) can do: report success with a validated
\* value, report failure with an error, or throw (any error, a
\* TypeValidationError about any value included).
SchemaOutcomes ==
    {[type |-> "return", result |-> [success |-> TRUE, value |-> v]] : v \in Values}
    \cup {[type |-> "return", result |-> [success |-> FALSE, error |-> PlainError(e)]] : e \in ErrorIds}
    \cup {[type |-> "throw", error |-> PlainError(e)] : e \in ErrorIds}
    \cup {[type |-> "throw", error |-> TypeValidationError(v, PlainError(e))] : v \in Values, e \in ErrorIds}

Return(v) == [type |-> "return", value |-> v]
Throw(e) == [type |-> "throw", error |-> e]

\* the try block of validateTypes
validateTypesTry(v, outcome) ==
    IF outcome.type = "throw" THEN Throw(outcome.error)
    ELSE IF ~outcome.result.success
         THEN Throw(TypeValidationError(v, outcome.result.error))
         ELSE Return(outcome.result.value)

\* the catch block of validateTypes
validateTypesCatch(v, error) ==
    IF IsTypeValidationError(error) THEN Throw(error)
    ELSE Throw(TypeValidationError(v, error))

validateTypes(v, outcome) ==
    LET body == validateTypesTry(v, outcome)
    IN  IF body.type = "throw" THEN validateTypesCatch(v, body.error) ELSE body

\* the try block of safeValidateTypes
safeValidateTypesTry(v, outcome) ==
    IF outcome.type = "throw" THEN Throw(outcome.error)
    ELSE IF outcome.result.success
         THEN Return(outcome.result)
         ELSE Return([success |-> FALSE,
                      error |-> TypeValidationError(v, outcome.result.error)])

safeValidateTypesCatchRethrow(v, error) ==
    IF IsTypeValidationError(error)
    THEN Return([success |-> FALSE, error |-> error])
    ELSE Throw(error)

\* the catch block of safeValidateTypes
safeValidateTypesCatch(v, error) ==
    Return([success |-> FALSE,
            error |-> IF IsTypeValidationError(error) THEN error
                      ELSE TypeValidationError(v, error)])

safeValidateTypes(v, outcome) ==
    LET body == safeValidateTypesTry(v, outcome)
    IN  IF body.type = "throw" THEN safeValidateTypesCatch(v, body.error) ELSE body

InitValidate ==
    /\ value \in Values
    /\ schemaOutcome \in SchemaOutcomes
    /\ validateResult = Pending
    /\ safeResult = Pending
    /\ CallIdle
    /\ DuplexIdle

CallValidateTypes ==
    /\ validateResult = Pending
    /\ validateResult' = validateTypes(value, schemaOutcome)
    /\ UNCHANGED <<value, schemaOutcome, safeResult, callVars, duplexVars>>

CallSafeValidateTypes ==
    /\ safeResult = Pending
    /\ safeResult' = safeValidateTypes(value, schemaOutcome)
    /\ UNCHANGED <<value, schemaOutcome, validateResult, callVars, duplexVars>>

NextValidate == CallValidateTypes \/ CallSafeValidateTypes

SpecValidate == InitValidate /\ [][NextValidate]_vars

(***************************************************************************)
(* The model behind a model function: a provider that answers one call     *)
(***************************************************************************)
Texts == 1..NumTexts
TextLists == UNION {[1..n -> Texts] : n \in 0..MaxTexts}

AbortError == [kind |-> "AbortError"]
CallErrors == {PlainError(e) : e \in 1..NumCallErrors} \cup {AbortError}

\* the vector a provider computes for one text
Embed(text) == <<text, text * text>>

\* model.generateEmbeddingResponse(textGroup, options), when it succeeds
generateEmbeddingResponse(textGroup) ==
    [object |-> "list", data |-> [j \in 1..Len(textGroup) |-> Embed(textGroup[j])]]

\* model.extractEmbeddings(response)
extractEmbeddings(response) == response.data

\* model.generateTranscriptionResponse(data, options), when it succeeds
generateTranscriptionResponse(data) == [text |-> <<"transcript", data>>]

\* model.extractTranscriptionText
extractTranscriptionText(response) == response.text

Min(a, b) == IF a < b THEN a ELSE b

\* Array.prototype.slice(start, end) for 0 <= start <= end (zero-based, end exclusive)
Slice(s, start, end) == SubSeq(s, start + 1, Min(end, Len(s)))

RECURSIVE Concat(_)
Concat(ss) == IF ss = <<>> THEN <<>> ELSE Head(ss) \o Concat(Tail(ss))

(***************************************************************************)
(* embedTexts                                                              *)
(***************************************************************************)
RECURSIVE textGroupsLoopOverlap(_, _, _, _)
textGroupsLoopOverlap(texts, max, i, textGroups) ==
    IF i < Len(texts)
    THEN textGroupsLoopOverlap(texts, max, i + max, Append(textGroups, Slice(texts, i, i + max + 1)))
    ELSE textGroups

\* for (let i = 0; i < texts.length; i += maxTextsPerCall)
\*   textGroups.push(texts.slice(i, i + maxTextsPerCall));
RECURSIVE textGroupsLoop(_, _, _, _)
textGroupsLoop(texts, max, i, textGroups) ==
    IF i < Len(texts)
    THEN textGroupsLoop(texts, max, i + max, Append(textGroups, Slice(texts, i, i + max)))
    ELSE textGroups

textGroupsOfOverlap(texts, max) == textGroupsLoopOverlap(texts, max, 0, <<>>)

\* the textGroups that generateResponse builds
textGroupsOf(texts, max) == textGroupsLoop(texts, max, 0, <<>>)

\* The value Promise.all(textGroups.map(...)) fulfils with: the values of the
\* calls in the order of the array, whatever the order they settled in.
PromiseAllValuesInCompletionOrder(s, order) == [k \in 1..Len(order) |-> s[order[k]].value]

PromiseAllValues(s, order) == [k \in 1..Len(s) |-> s[k].value]

embedTexts_extractOutputValue(response) ==
    Concat([k \in 1..Len(response) |-> extractEmbeddings(response[k])])

embedTexts_getStartEvent(metadata, settings, texts) ==
    [type |-> "text-embedding-started", metadata |-> metadata, settings |-> settings,
     texts |-> texts]

embedTexts_getAbortEvent(metadata, settings, texts) ==
    [type |-> "text-embedding-finished", status |-> "abort", metadata |-> metadata,
     settings |-> settings, texts |-> texts]

embedTexts_getFailureEvent(metadata, settings, texts, error) ==
    [type |-> "text-embedding-finished", status |-> "failure", metadata |-> metadata,
     settings |-> settings, error |-> error, texts |-> texts]

embedTexts_getSuccessEvent(metadata, settings, texts, response, output) ==
    [type |-> "text-embedding-finished", status |-> "success", metadata |-> metadata,
     settings |-> settings, texts |-> texts, response |-> response,
     generatedEmbeddings |-> output]

(***************************************************************************)
(* embedText                                                               *)
(***************************************************************************)
\* const texts = [text];
embedText_texts(text) == <<text>>

embedText_extractOutputValue(response) == extractEmbeddings(response)[1]

embedText_getStartEvent(metadata, settings, texts) ==
    [type |-> "text-embedding-started", metadata |-> metadata, settings |-> settings,
     texts |-> texts]

embedText_getAbortEvent(metadata, settings, texts) ==
    [type |-> "text-embedding-finished", status |-> "abort", metadata |-> metadata,
     settings |-> settings, texts |-> texts]

embedText_getFailureEvent(metadata, settings, texts, error) ==
    [type |-> "text-embedding-finished", status |-> "failure", metadata |-> metadata,
     settings |-> settings, error |-> error, texts |-> texts]

embedText_getSuccessEventBareOutput(metadata, settings, texts, response, output) ==
    [type |-> "text-embedding-finished", status |-> "success", metadata |-> metadata,
     settings |-> settings, texts |-> texts, response |-> response,
     generatedEmbeddings |-> output]

embedText_getSuccessEvent(metadata, settings, texts, response, output) ==
    [type |-> "text-embedding-finished", status |-> "success", metadata |-> metadata,
     settings |-> settings, texts |-> texts, response |-> response,
     generatedEmbeddings |-> <<output>>]

(***************************************************************************)
(* transcribe                                                              *)
(***************************************************************************)
transcribe_getStartEvent(metadata, settings, data) ==
    [type |-> "transcription-started", metadata |-> metadata, settings |-> settings,
     data |-> data]

transcribe_getAbortEvent(metadata, settings, data) ==
    [type |-> "transcription-finished", status |-> "abort", settings |-> settings,
     metadata |-> metadata, data |-> data]

transcribe_getFailureEvent(metadata, settings, data, error) ==
    [type |-> "transcription-finished", status |-> "failure", metadata |-> metadata,
     settings |-> settings, data |-> data, error |-> error]

transcribe_getSuccessEvent(metadata, settings, data, response, output) ==
    [type |-> "transcription-finished", status |-> "success", metadata |-> metadata,
     settings |-> settings, data |-> data, response |-> response,
     transcription |-> output]

(***************************************************************************)
(* executeCall: the call execution pipeline that runs a model function     *)
(***************************************************************************)
Fulfilled(v) == [type |-> "fulfilled", value |-> v]
Rejected(e) == [type |-> "rejected", error |-> e]

StartMetadata == "start-metadata"
FinishMetadata == "finish-metadata"
SettingsForEvent == "settings"

\* the input as the events of a call carry it
EventInput == IF fn = "embedText" THEN embedText_texts(input) ELSE input

getStartEvent ==
    CASE fn = "transcribe" -> transcribe_getStartEvent(StartMetadata, SettingsForEvent, EventInput)
      [] fn = "embedTexts" -> embedTexts_getStartEvent(StartMetadata, SettingsForEvent, EventInput)
      [] fn = "embedText" -> embedText_getStartEvent(StartMetadata, SettingsForEvent, EventInput)

getAbortEvent ==
    CASE fn = "transcribe" -> transcribe_getAbortEvent(FinishMetadata, SettingsForEvent, EventInput)
      [] fn = "embedTexts" -> embedTexts_getAbortEvent(FinishMetadata, SettingsForEvent, EventInput)
      [] fn = "embedText" -> embedText_getAbortEvent(FinishMetadata, SettingsForEvent, EventInput)

getFailureEvent(error) ==
    CASE fn = "transcribe" -> transcribe_getFailureEvent(FinishMetadata, SettingsForEvent, EventInput, error)
      [] fn = "embedTexts" -> embedTexts_getFailureEvent(FinishMetadata, SettingsForEvent, EventInput, error)
      [] fn = "embedText" -> embedText_getFailureEvent(FinishMetadata, SettingsForEvent, EventInput, error)

getSuccessEvent(response, output) ==
    CASE fn = "transcribe" -> transcribe_getSuccessEvent(FinishMetadata, SettingsForEvent, EventInput, response, output)
      [] fn = "embedTexts" -> embedTexts_getSuccessEvent(FinishMetadata, SettingsForEvent, EventInput, response, output)
      [] fn = "embedText" -> embedText_getSuccessEvent(FinishMetadata, SettingsForEvent, EventInput, response, output)

extractOutputValue(response) ==
    CASE fn = "transcribe" -> extractTranscriptionText(response)
      [] fn = "embedTexts" -> embedTexts_extractOutputValue(response)
      [] fn = "embedText" -> embedText_extractOutputValue(response)

\* the arguments of the model calls that generateResponse issues, in order
generateResponseCalls ==
    CASE fn = "transcribe" -> <<input>>
      [] fn = "embedTexts" -> textGroupsOf(input, maxTextsPerCall)
      [] fn = "embedText" -> <<embedText_texts(input)>>

\* what the provider answers to the call with argument arg
ModelResponse(arg) ==
    IF fn = "transcribe" THEN generateTranscriptionResponse(arg)
    ELSE generateEmbeddingResponse(arg)

AllFulfilled == \A k \in 1..Len(slots) : slots[k].type = "fulfilled"
SomeRejected == \E k \in 1..Len(slots) : slots[k].type = "rejected"

\* the first call that rejected, in the order the calls settled
FirstRejected ==
    LET ks == {k \in 1..Len(completionOrder) : slots[completionOrder[k]].type = "rejected"}
    IN  completionOrder[CHOOSE k \in ks : \A j \in ks : k <= j]

\* the value the promise returned by generateResponse fulfils with
generateResponseValue ==
    IF fn = "embedTexts" THEN PromiseAllValues(slots, completionOrder) ELSE slots[1].value

\* error.name === "AbortError"
IsAborted(error) == error.kind = "AbortError"

InitCall ==
    /\ fn \in {"transcribe", "embedTexts", "embedText"}
    /\ input \in (IF fn = "embedTexts" THEN TextLists ELSE Texts)
    /\ maxTextsPerCall \in 1..MaxPerCall
    /\ pc = "start"
    /\ events = <<>>
    /\ calls = <<>>
    /\ slots = <<>>
    /\ completionOrder = <<>>
    /\ result = Pending
    /\ ValidateIdle
    /\ DuplexIdle

\* executeCall notifies the start event
NotifyStart ==
    /\ pc = "start"
    /\ events' = Append(events, getStartEvent)
    /\ pc' = "generate"
    /\ UNCHANGED <<fn, input, maxTextsPerCall, calls, slots, completionOrder, result,
                   validateVars, duplexVars>>

\* executeCall runs generateResponse, which issues every model call at once
GenerateResponse ==
    /\ pc = "generate"
    /\ calls' = generateResponseCalls
    /\ slots' = [k \in 1..Len(generateResponseCalls) |-> Pending]
    /\ pc' = "await"
    /\ UNCHANGED <<fn, input, maxTextsPerCall, events, completionOrder, result,
                   validateVars, duplexVars>>

\* one of the pending model calls succeeds
CallFulfils(k) ==
    /\ pc \in {"await", "done"}
    /\ slots[k] = Pending
    /\ slots' = [slots EXCEPT ![k] = Fulfilled(ModelResponse(calls[k]))]
    /\ completionOrder' = Append(completionOrder, k)
    /\ UNCHANGED <<fn, input, maxTextsPerCall, pc, events, calls, result,
                   validateVars, duplexVars>>

\* one of the pending model calls fails or is aborted
CallRejects(k, error) ==
    /\ pc \in {"await", "done"}
    /\ slots[k] = Pending
    /\ slots' = [slots EXCEPT ![k] = Rejected(error)]
    /\ completionOrder' = Append(completionOrder, k)
    /\ UNCHANGED <<fn, input, maxTextsPerCall, pc, events, calls, result,
                   validateVars, duplexVars>>

\* generateResponse fulfilled: extract the output, notify success, return
FinishSuccess ==
    /\ pc = "await"
    /\ AllFulfilled
    /\ LET response == generateResponseValue
           output == extractOutputValue(response)
       IN  /\ events' = Append(events, getSuccessEvent(response, output))
           /\ result' = Return(output)
    /\ pc' = "done"
    /\ UNCHANGED <<fn, input, maxTextsPerCall, calls, slots, completionOrder,
                   validateVars, duplexVars>>

\* generateResponse rejected with an AbortError: notify abort, throw
FinishAbort ==
    /\ pc = "await"
    /\ SomeRejected
    /\ IsAborted(slots[FirstRejected].error)
    /\ events' = Append(events, getAbortEvent)
    /\ result' = Throw(AbortError)
    /\ pc' = "done"
    /\ UNCHANGED <<fn, input, maxTextsPerCall, calls, slots, completionOrder,
                   validateVars, duplexVars>>

\* generateResponse rejected with another error: notify failure, rethrow
FinishFailure ==
    /\ pc = "await"
    /\ SomeRejected
    /\ ~IsAborted(slots[FirstRejected].error)
    /\ events' = Append(events, getFailureEvent(slots[FirstRejected].error))
    /\ result' = Throw(slots[FirstRejected].error)
    /\ pc' = "done"
    /\ UNCHANGED <<fn, input, maxTextsPerCall, calls, slots, completionOrder,
                   validateVars, duplexVars>>

NextCall ==
    \/ NotifyStart
    \/ GenerateResponse
    \/ \E k \in 1..Len(slots) : CallFulfils(k)
    \/ \E k \in 1..Len(slots), error \in CallErrors : CallRejects(k, error)
    \/ FinishSuccess
    \/ FinishAbort
    \/ FinishFailure

SpecCall == InitCall /\ [][NextCall]_vars

(***************************************************************************)
(* ElevenLabsSpeechSynthesisModel.doSynthesizeSpeechStreamDuplex           *)
(***************************************************************************)
\* An audio string is a sequence of base64 digits, each given by its value 0..63.
AudioStrings == {<<16, 20>>, <<16, 20, 9, 3>>}

\* Buffer.from(audio, "base64"): four digits give three bytes, a tail of three
\* digits two bytes, a tail of two digits one byte.
RECURSIVE Base64Decode(_)
Base64Decode(digits) ==
    IF Len(digits) >= 4
    THEN LET n == ((digits[1] * 64 + digits[2]) * 64 + digits[3]) * 64 + digits[4]
         IN  <<n \div 65536, (n \div 256) % 256, n % 256>>
             \o Base64Decode(SubSeq(digits, 5, Len(digits)))
    ELSE IF Len(digits) = 3
    THEN LET n == (digits[1] * 64 + digits[2]) * 64 + digits[3]
         IN  <<n \div 1024, (n \div 4) % 256>>
    ELSE IF Len(digits) = 2
    THEN <<(digits[1] * 64 + digits[2]) \div 16>>
    ELSE <<>>

\* event.data of a socket message. json: whether JSON.parse accepts it. For the
\* parsed object: audio is a string or absent; isFinal is false, null, true or
\* absent; normalizedAlignment is null, an object or absent; errorFields tells
\* whether message, error and code are all there with the right types.
SocketMessages ==
    [json : {TRUE}, hasAudio : {TRUE}, audio : AudioStrings,
     isFinal : {"false", "null", "true", "absent"},
     normalizedAlignment : {"null", "object", "absent"}, errorFields : BOOLEAN]
    \cup
    [json : {TRUE}, hasAudio : {FALSE}, audio : {<<>>},
     isFinal : {"false", "null", "true", "absent"},
     normalizedAlignment : {"null", "object", "absent"}, errorFields : BOOLEAN]
    \cup
    [json : {FALSE}, hasAudio : {FALSE}, audio : {<<>>}, isFinal : {"absent"},
     normalizedAlignment : {"absent"}, errorFields : {FALSE}]

SocketErrors == {PlainError(e) : e \in ErrorIds}

\* responseSchema.safeParse: the first alternative of the union that accepts the
\* object, with the keys that alternative does not name stripped.
responseSchemaSafeParse(m) ==
    IF m.hasAudio /\ m.isFinal \in {"false", "null"}
       /\ m.normalizedAlignment \in {"null", "object"}
    THEN [success |-> TRUE,
          data |-> [audio |-> m.audio, isFinal |-> m.isFinal,
                    normalizedAlignment |-> m.normalizedAlignment]]
    ELSE IF m.isFinal = "true"
    THEN [success |-> TRUE, data |-> [isFinal |-> "true"]]
    ELSE IF m.errorFields
    THEN [success |-> TRUE,
          data |-> [message |-> "message", error |-> "error", code |-> "code"]]
    ELSE [success |-> FALSE, error |-> [kind |-> "ZodError"]]

\* !response.isFinal
NotIsFinal(response) == response.isFinal \in {"false", "null"}

\* AsyncQueue.push
QueuePush(q, item) == [q EXCEPT !.items = Append(@, item)]

\* AsyncQueue.close
QueueClose(q) == [q EXCEPT !.closed = TRUE]

onmessageDropsInvalid(q, event) ==
    IF ~event.data.json THEN q
    ELSE LET parseResult == responseSchemaSafeParse(event.data)
         IN  IF ~parseResult.success
             THEN q
             ELSE IF "error" \in DOMAIN parseResult.data
             THEN QueuePush(q, [type |-> "error", error |-> parseResult.data])
             ELSE IF NotIsFinal(parseResult.data)
             THEN QueuePush(q, [type |-> "delta", fullDelta |-> event,
                                valueDelta |-> Base64Decode(parseResult.data.audio)])
             ELSE q

\* socket.onmessage: the queue after the handler ran (a throw of JSON.parse
\* ends the handler before anything is pushed)
onmessage(q, event) ==
    IF ~event.data.json THEN q
    ELSE LET parseResult == responseSchemaSafeParse(event.data)
         IN  IF ~parseResult.success
             THEN QueuePush(q, [type |-> "error", error |-> parseResult.error])
             ELSE IF "error" \in DOMAIN parseResult.data
             THEN QueuePush(q, [type |-> "error", error |-> parseResult.data])
             ELSE IF NotIsFinal(parseResult.data)
             THEN QueuePush(q, [type |-> "delta", fullDelta |-> event,
                                valueDelta |-> Base64Decode(parseResult.data.audio)])
             ELSE q

\* socket.onerror
onerror(q, error) == QueuePush(q, [type |-> "error", error |-> error])

\* socket.onclose
onclose(q) == QueueClose(q)

\* the state in which doSynthesizeSpeechStreamDuplex returns the queue
InitDuplex ==
    /\ socketState = "open"
    /\ arrived = <<>>
    /\ queue = [items |-> <<>>, closed |-> FALSE]
    /\ ValidateIdle
    /\ CallIdle

SocketMessage(m) ==
    /\ socketState = "open"
    /\ Len(arrived) < MaxEvents
    /\ LET event == [kind |-> "message", data |-> m]
       IN  /\ queue' = onmessage(queue, event)
           /\ arrived' = Append(arrived, event)
    /\ UNCHANGED <<socketState, validateVars, callVars>>

SocketError(error) ==
    /\ socketState = "open"
    /\ Len(arrived) < MaxEvents
    /\ queue' = onerror(queue, error)
    /\ arrived' = Append(arrived, [kind |-> "error", error |-> error])
    /\ UNCHANGED <<socketState, validateVars, callVars>>

SocketClose ==
    /\ socketState = "open"
    /\ queue' = onclose(queue)
    /\ arrived' = Append(arrived, [kind |-> "close"])
    /\ socketState' = "closed"
    /\ UNCHANGED <<validateVars, callVars>>

NextDuplex ==
    \/ \E m \in SocketMessages : SocketMessage(m)
    \/ \E error \in SocketErrors : SocketError(error)
    \/ SocketClose

SpecDuplex == InitDuplex /\ [][NextDuplex]_vars

----
\* C3: validateTypes returns the schema's validated value when schema.validate
\* reports success, and in every other case - a reported failure or a throw of
\* schema.validate - raises a TypeValidationError that carries the original
\* value and the cause.
C3_OriginalValueAndCause ==
    validateResult # Pending =>
        IF schemaOutcome.type = "return" /\ schemaOutcome.result.success
        THEN validateResult = Return(schemaOutcome.result.value)
        ELSE /\ validateResult.type = "throw"
             /\ IsTypeValidationError(validateResult.error)
             /\ validateResult.error.value = value
             /\ schemaOutcome.type = "return" =>
                    validateResult.error.cause = schemaOutcome.result.error
             /\ (schemaOutcome.type = "throw" /\ ~IsTypeValidationError(schemaOutcome.error)) =>
                    validateResult.error.cause = schemaOutcome.error

\* C4: safeValidateTypes never throws; it returns {success: true, value} with
\* the schema's validated value when schema.validate reports success, and
\* otherwise {success: false, error} with a TypeValidationError, also when
\* schema.validate throws.
C4_SafeNeverThrows ==
    safeResult # Pending =>
        /\ safeResult.type = "return"
        /\ IF schemaOutcome.type = "return" /\ schemaOutcome.result.success
           THEN safeResult.value = [success |-> TRUE, value |-> schemaOutcome.result.value]
           ELSE /\ safeResult.value.success = FALSE
                /\ IsTypeValidationError(safeResult.value.error)

C4_Witness ==
    /\ safeResult # Pending
    /\ schemaOutcome.type = "throw"
    /\ ~IsTypeValidationError(schemaOutcome.error)
    /\ safeResult.type = "return"
    /\ safeResult.value.success = FALSE

----
\* The texts of an embedTexts call and the number of model calls a list of n
\* texts needs when a call takes at most m of them.
CeilDiv(n, m) == (n + m - 1) \div m

\* C1: embedTexts splits the texts into consecutive groups, each non-empty and
\* of at most maxTextsPerCall texts, all but the last of exactly
\* maxTextsPerCall texts, whose concatenation is the input list; it issues one
\* generateEmbeddingResponse call per group, ceil(len / maxTextsPerCall) calls,
\* none for an empty list.
C1_TextGroups ==
    (fn = "embedTexts" /\ pc \in {"await", "done"}) =>
        /\ Len(calls) = CeilDiv(Len(input), maxTextsPerCall)
        /\ Len(slots) = Len(calls)
        /\ input = <<>> => calls = <<>>
        /\ \A k \in 1..Len(calls) :
              /\ Len(calls[k]) >= 1
              /\ Len(calls[k]) <= maxTextsPerCall
              /\ k < Len(calls) => Len(calls[k]) = maxTextsPerCall
        /\ Concat(calls) = input

C1_Witness ==
    /\ fn = "embedTexts"
    /\ pc = "await"
    /\ Len(input) > maxTextsPerCall
    /\ maxTextsPerCall > 1
    /\ Len(calls) > 1
    /\ Len(calls[Len(calls)]) < maxTextsPerCall

\* C2: the embeddings embedTexts returns are those of the input texts in input
\* order, the concatenation of extractEmbeddings over the responses in group
\* order, in whatever order the concurrent calls completed.
C2_InputOrder ==
    (fn = "embedTexts" /\ pc = "done" /\ result.type = "return") =>
        /\ result.value = [i \in 1..Len(input) |-> Embed(input[i])]
        /\ result.value = Concat([k \in 1..Len(calls) |->
                                     extractEmbeddings(generateEmbeddingResponse(calls[k]))])

C2_Witness ==
    /\ fn = "embedTexts"
    /\ pc = "done"
    /\ result.type = "return"
    /\ Len(completionOrder) >= 2
    /\ completionOrder[1] > completionOrder[2]
    /\ calls[1] # calls[2]

\* The input, the response and the output a call's events and result are
\* compared with.
CallerInput == IF fn = "embedText" THEN <<input>> ELSE input

EventInputOf(e) == IF fn = "transcribe" THEN e.data ELSE e.texts

EventOutputOf(e) == IF fn = "transcribe" THEN e.transcription ELSE e.generatedEmbeddings

ReturnedOutput == IF fn = "embedText" THEN <<result.value>> ELSE result.value

StartedType == IF fn = "transcribe" THEN "transcription-started" ELSE "text-embedding-started"

FinishedType == IF fn = "transcribe" THEN "transcription-finished" ELSE "text-embedding-finished"

ProviderResponse ==
    CASE fn = "transcribe" -> generateTranscriptionResponse(input)
      [] fn = "embedText" -> generateEmbeddingResponse(<<input>>)
      [] fn = "embedTexts" -> [k \in 1..Len(calls) |-> generateEmbeddingResponse(calls[k])]

\* C6: every lifecycle event of a transcribe, embedTexts or embedText call
\* carries the caller's input: the first event is the started event, a call
\* that ended has one finished event after it, of status success, abort or
\* failure; the success event carries the response and the output returned to
\* the caller (for embedText as a one-element list), the failure event the
\* error thrown to the caller.
C6_EventsCarryInput ==
    fn \in {"transcribe", "embedTexts", "embedText"} =>
        /\ Len(events) = (CASE pc = "start" -> 0 [] pc = "done" -> 2 [] OTHER -> 1)
        /\ Len(events) >= 1 =>
              /\ events[1].type = StartedType
              /\ EventInputOf(events[1]) = CallerInput
        /\ \A k \in 2..Len(events) :
              LET e == events[k]
              IN  /\ e.type = FinishedType
                  /\ e.status \in {"success", "abort", "failure"}
                  /\ EventInputOf(e) = CallerInput
                  /\ e.status = "success" =>
                        /\ result.type = "return"
                        /\ e.response = ProviderResponse
                        /\ EventOutputOf(e) = ReturnedOutput
                  /\ e.status = "failure" =>
                        /\ result.type = "throw"
                        /\ e.error = result.error
                  /\ e.status = "abort" => result.type = "throw"

C6_Witness ==
    /\ fn = "embedText"
    /\ pc = "done"
    /\ Len(events) = 2
    /\ events[2].status = "success"
    /\ events[2].generatedEmbeddings = <<Embed(input)>>

\* What one socket event adds to the queue: its kind, and for a delta the audio.
PushedBy(event) ==
    IF event.kind = "error" THEN <<<<"error">>>>
    ELSE IF event.kind = "close" THEN <<>>
    ELSE IF ~event.data.json THEN <<>>
    ELSE LET parsed == responseSchemaSafeParse(event.data)
         IN  IF ~parsed.success \/ "error" \in DOMAIN parsed.data
             THEN <<<<"error">>>>
             ELSE IF parsed.data.isFinal = "true" THEN <<>>
             ELSE <<<<"delta", Base64Decode(event.data.audio)>>>>

ItemShape(item) == IF item.type = "delta" THEN <<"delta", item.valueDelta>> ELSE <<item.type>>

\* C5: the queue holds, in arrival order, one error item per message that fails
\* schema validation or is an error response and per socket error, one delta
\* with the decoded audio per valid audio message whose isFinal is false or
\* null, and nothing for a message with isFinal true; it is closed exactly
\* when the socket has closed.
C5_QueueFollowsSocket ==
    socketState = "open" \/ arrived # <<>> =>
        /\ [k \in 1..Len(queue.items) |-> ItemShape(queue.items[k])]
               = Concat([k \in 1..Len(arrived) |-> PushedBy(arrived[k])])
        /\ queue.closed <=> socketState = "closed"

C5_Witness ==
    /\ socketState = "open"
    /\ ~queue.closed
    /\ Len(queue.items) = 2
    /\ queue.items[1].type = "error"
    /\ arrived[1].kind = "message"
    /\ queue.items[2].type = "delta"
    /\ queue.items[2].valueDelta = <<65, 66, 67>>

====
